---- MODULE Spec2Model ----
(***************************************************************************)
(* The bridge orchestrator of hoobs-core: src/bridge/server.js (class      *)
(* Server) driven by the command-line entry point (module.exports of the   *)
(* cli, held in src/Dockerfile lines 64-120).                              *)
(*                                                                         *)
(* JavaScript runs every handler to completion, so each handler is one     *)
(* action.  run() is split only where it hands control to plugin code (a   *)
(* platform constructor, instance.accessories(), configureAccessory, the   *)
(* didFinishLaunching listeners): plugin code may synchronously call back  *)
(* into the server there.                                                  *)
(***************************************************************************)
EXTENDS Integers, Sequences, FiniteSets, TLC

\* ---------------------------------------------------------------- bounds
MaxPlatforms == 2      \* entries of config.platforms
MaxCache == 2          \* entries of the persisted cachedAccessories document
MaxFound == 2          \* accessories one discovery callback reports
MaxExt == 3            \* accessories handed to publishExternalAccessories
MaxApiCalls == 2       \* register / update / unregister calls of plugins
MaxSignals == 2        \* SIGINT / SIGTERM sent by the environment
MaxPort == 2           \* port numbers of a configured pool are 1..MaxPort
MaxPlugins == 2        \* plugins Plugin.installed() discovers
MaxEntries == 2        \* entries of a configured list before handleNewConfig is applied
MaxConfigCalls == 2    \* applications of handleNewConfig

Undefined == "undefined"

\* ------------------------------------------------------------------ names
\* A platform name is the sequence of its "."-separated segments:
\* <<"p", "A">> is "p.A", <<"A">> is "A".
Join(plugin, platform) == <<plugin, platform>>

\* name.split(".")[1]
SplitSecond(name) == IF Len(name) >= 2 THEN <<name[2]>> ELSE Undefined

\* The platforms the plugins register when their initializer runs: plugin p
\* has a static platform S and may register a dynamic platform A.
StaticCandidates == {<<"p", "S">>}
DynamicCandidates == {<<"p", "A">>}

PluginNames == {"p", "q", "r"}

PlatformNames == {<<"S">>, <<"A">>, <<"p", "A">>, <<"N">>}
Keys == PlatformNames \cup DynamicCandidates \cup {<<"q", "A">>}

\* ------------------------------------------------------------ accessories
\* Platform accessories (instances of Platform) known to plugins or cache.
UUIDs == {"u1", "u2", "u3"}

\* u1 and u2 belong to platform p.A; u3 was cached for platform A of a plugin
\* q that is not installed.
AssociatedPlugin(u) == IF u = "u3" THEN "q" ELSE "p"
AssociatedPlatform(u) == "A"

\* Platform.serialize: the persisted record of a platform accessory.
Serialize(accessory) ==
    [UUID |-> accessory.UUID, plugin |-> accessory.associatedPlugin,
     platform |-> accessory.associatedPlatform]

\* Platform.deserialize: a fresh, not yet configured Platform object.
Deserialize(json) ==
    [UUID |-> json.UUID, associatedPlugin |-> json.plugin,
     associatedPlatform |-> json.platform, configured |-> FALSE]

\* A Platform object a plugin creates itself and hands to the api.
NewPlatformAccessory(u) ==
    [UUID |-> u, associatedPlugin |-> AssociatedPlugin(u),
     associatedPlatform |-> AssociatedPlatform(u), configured |-> TRUE]

SerializedUniverse == {Serialize(NewPlatformAccessory(u)) : u \in UUIDs}

RECURSIVE SeqsUpTo(_, _)
SeqsUpTo(S, n) ==
    IF n = 0 THEN {<<>>}
    ELSE LET shorter == SeqsUpTo(S, n - 1)
         IN shorter \cup {Append(s, x) : s \in {t \in shorter : Len(t) = n - 1}, x \in S}

NoDup(s) == \A i, j \in 1..Len(s) : s[i] = s[j] => i = j

Range(s) == {s[i] : i \in 1..Len(s)}

\* ------------------------------------------------------------------ state
VARIABLES
    \* inputs of one run of the process
    platformsCfg,        \* config.platforms: the "platform" name of each entry
    accessoriesCfg,      \* config.accessories: the "accessory" name of each entry
    platformBodies,      \* config.platforms: the rest of each entry
    accessoryBodies,     \* config.accessories: the rest of each entry
    configFile,          \* the document at User.configPath()
    bridgeFile,          \* the file at User.configPath(): its state and its "bridge" section
    bridgeUsername,      \* this.config.bridge.username
    dynamicPlatforms,    \* api.dynamicPlatforms: the registered dynamic platforms
    removeOrphans,       \* opts.removeOrphans
    optsConfig,          \* TRUE when the configuration came in as opts.config
    configPorts,         \* "ports" of the configuration document as written
    apiOffered,          \* the accessory lists plugins register and unregister
    apiBudget,           \* how many register / update / unregister calls plugins make
    extOffered,          \* the accessory lists plugins publish externally
    extBudget,           \* how many accessories plugins publish externally
    installed,           \* Plugin.installed(): the names, in discovery order
    pluginsCfg,          \* config.plugins, the allow-list
    failing,             \* the plugins whose load() throws
    \* Server
    plugins,             \* this.plugins: the names of the loaded plugins, in order
    initialized,         \* the plugins whose initializer was called, in order
    loadErrors,          \* the plugins with a loadError recorded
    pc,                  \* position of the cli: "new" before new Server, then of run()
    idx,                 \* loop index of loadPlatforms
    asyncCalls, asyncWait,
    pending,             \* discovery callbacks handed out and not yet invoked
    instances,           \* platform instances constructed so far, in order
    activeDynamicPlugins,
    cachedPlatformAccessories,
    persisted,           \* the cachedAccessories document of node-persist
    externalPorts, nextExternalPort,
    publishedAccessories,
    \* the bridge and the external accessories (hap-nodejs)
    bridged,             \* UUIDs of the platform accessories on the bridge
    bridgedStatic,       \* accessories built by createAccessory on the bridge
    bridgePublished,     \* the bridge is advertised
    extLive,             \* addresses of the external accessories advertised
    \* cli
    terminating,
    selfSignal,          \* SIGTERM sent by the uncaughtException handler, not yet handled
    timerSet,            \* the 3000 ms exit timer is armed
    exited,
    faulted,             \* an exception has reached the top of the stack uncaught
    \* history
    publishCount,        \* calls of Server.publish
    publishInfo,         \* the username the bridge was published with
    sent,                \* events of process.send
    extLog,              \* one record per accessory handled by handlePublishExternalAccessories
    envSignals,          \* signals the environment has sent
    teardowns,           \* calls of Server.teardown
    shutdownLog,         \* the steps of the shutdown taken so far, in order
    apiCalls,            \* register / update / unregister calls made
    lastApi,             \* the latest of them: handler, argument, whether it threw
    lastFound,           \* the latest discovery callback: its entry and what it was handed
    configCalls,         \* applications of handleNewConfig
    lastConfig,          \* the latest of them: how it came in and its arguments
    removed              \* UUIDs dropped as orphans and not registered since

configVars == <<platformBodies, accessoryBodies, configFile, configCalls, lastConfig>>
pluginVars == <<installed, pluginsCfg, failing, plugins, initialized, loadErrors>>
identityVars == <<bridgeFile, bridgeUsername>>
inputVars == <<platformsCfg, accessoriesCfg, dynamicPlatforms, removeOrphans,
               optsConfig, configPorts, apiOffered, apiBudget, extOffered, extBudget,
               pluginVars, configVars, identityVars>>
runVars == <<pc, idx, asyncCalls, asyncWait, pending, instances, activeDynamicPlugins>>
cacheVars == <<cachedPlatformAccessories, persisted, removed>>
extVars == <<externalPorts, nextExternalPort, publishedAccessories, extLive, extLog>>
bridgeVars == <<bridged, bridgedStatic, bridgePublished, publishCount, publishInfo, sent>>
cliVars == <<terminating, selfSignal, timerSet, exited, faulted, envSignals, teardowns,
             shutdownLog>>

apiVars == <<apiCalls, lastApi, lastFound>>

vars == <<inputVars, runVars, cacheVars, extVars, bridgeVars, cliVars, apiVars>>

\* The static platforms registered: those of the initialized plugins.
StaticPlatforms == {s \in StaticCandidates : s[1] \in Range(initialized)}

\* ---------------------------------------------------------- configuration
NoPorts == [defined |-> FALSE, start |-> 0, end |-> 0]
Pool(s, e) == [defined |-> TRUE, start |-> s, end |-> e]

\* loadConfig, the "ports" part: an inverted pool is dropped.
LoadConfigPorts(ports) ==
    IF ports.defined /\ ports.start > ports.end THEN NoPorts ELSE ports

\* The characters of a username; a username is the sequence of its characters.
UpperHex == {"0", "1", "2", "3", "4", "5", "6", "7", "8", "9", "A", "B", "C", "D", "E", "F"}

\* "CC:22:3D:E3:CE:30"
DefaultUsername ==
    <<"C", "C", ":", "2", "2", ":", "3", "D", ":", "E", "3", ":", "C", "E", ":", "3", "0">>

\* A username that is undefined: no sequence of characters
NoUsername == <<Undefined>>

\* loadConfig, line 217: /^([0-9A-F]{2}:){5}([0-9A-F]{2})$/.test(username).
\* The expression has no "i" flag; an undefined username is tested as the
\* text "undefined".
UsernamePattern(username) ==
    /\ username # NoUsername
    /\ Len(username) = Len(DefaultUsername)
    /\ \A i \in 1..Len(username) :
           IF i % 3 = 0 THEN username[i] = ":" ELSE username[i] \in UpperHex

\* The file at the configuration path
NoFile == [state |-> "absent", bridge |-> FALSE, username |-> NoUsername]
Unparsable == [state |-> "unparsable", bridge |-> FALSE, username |-> NoUsername]
NoBridge == [state |-> "parsed", bridge |-> FALSE, username |-> NoUsername]
BridgeWith(username) == [state |-> "parsed", bridge |-> TRUE, username |-> username]

\* loadConfig, line 217: config.bridge.username of a document without a
\* "bridge" section is a TypeError, which leaves loadConfig and the constructor.
LoadConfigThrows(file) == file.state = "parsed" /\ ~file.bridge

\* loadConfig: the username of the configuration it returns.  Without a file,
\* or with one JSON.parse rejects, the built-in configuration is returned.
LoadConfigUsername(file) ==
    IF file.state # "parsed" THEN DefaultUsername
    ELSE IF UsernamePattern(file.username) THEN file.username
    ELSE DefaultUsername

\* constructor, line 58: this.config = opts.config || this.loadConfig()
ConstructBridgeUsername(fromOpts, file) ==
    IF fromOpts THEN file.username ELSE LoadConfigUsername(file)

\* constructor: this.config = opts.config || this.loadConfig(), then
\* this.externalPorts = this.config.ports
ConstructExternalPorts(fromOpts, ports) ==
    IF fromOpts THEN ports ELSE LoadConfigPorts(ports)

\* api.platform(name): the constructor registered under the full name or,
\* for a name without a plugin prefix, under that platform type.
ApiPlatform(name, dynamic) ==
    LET registered == StaticPlatforms \cup dynamic
        matches == {r \in registered : r = name \/ <<r[2]>> = name}
    IN IF matches = {} THEN <<>> ELSE CHOOSE r \in matches : TRUE

\* this.activeDynamicPlugins[key]; 0 stands for undefined
Get(active, key) == IF key \in DOMAIN active THEN active[key] ELSE 0

Put(active, key, instance) == [active EXCEPT ![key] = instance]

\* ------------------------------------------------- cache reconciliation
\* configCachedPlatformAccessories: the owning instance of a cached accessory
OwnerInstance(accessory, active) ==
    LET byFull == Get(active, Join(accessory.associatedPlugin, accessory.associatedPlatform))
    IN IF byFull # 0 THEN byFull ELSE Get(active, <<accessory.associatedPlatform>>)

RECURSIVE ReconcileSkipping(_, _, _)
\* A reconciliation that splices an orphan out of the list it iterates over,
\* so that the entry after a dropped orphan is passed over unexamined.
ReconcileSkipping(cache, active, remove) ==
    IF cache = <<>> THEN <<>>
    ELSE LET accessory == Head(cache)
         IN IF OwnerInstance(accessory, active) # 0
            THEN <<[accessory EXCEPT !.configured = TRUE]>>
                     \o ReconcileSkipping(Tail(cache), active, remove)
            ELSE IF remove
            THEN IF Len(cache) = 1 THEN <<>>
                 ELSE <<cache[2]>> \o ReconcileSkipping(SubSeq(cache, 3, Len(cache)), active, remove)
            ELSE <<accessory>> \o ReconcileSkipping(Tail(cache), active, remove)

RECURSIVE ReconcileKeepingOrphans(_, _, _)
\* A reconciliation without the "continue" of line 342: orphans always stay.
ReconcileKeepingOrphans(cache, active, remove) ==
    IF cache = <<>> THEN <<>>
    ELSE LET accessory == Head(cache)
             rest == ReconcileKeepingOrphans(Tail(cache), active, remove)
         IN IF OwnerInstance(accessory, active) # 0
            THEN <<[accessory EXCEPT !.configured = TRUE]>> \o rest
            ELSE <<accessory>> \o rest

RECURSIVE Reconcile(_, _, _)
\* configCachedPlatformAccessories: verifiedAccessories for a cached list
Reconcile(cache, active, remove) ==
    IF cache = <<>> THEN <<>>
    ELSE LET accessory == Head(cache)
             rest == Reconcile(Tail(cache), active, remove)
         IN IF OwnerInstance(accessory, active) # 0
            THEN <<[accessory EXCEPT !.configured = TRUE]>> \o rest
            ELSE IF remove THEN rest ELSE <<accessory>> \o rest

\* The first position of the verified list whose accessory is already on the
\* bridge (bridge.addBridgedAccessory throws there), 0 when there is none.
FirstDuplicate(verified, onBridge) ==
    LET dup == {i \in 1..Len(verified) :
                   \/ verified[i].UUID \in onBridge
                   \/ \E j \in 1..(i - 1) : verified[j].UUID = verified[i].UUID}
    IN IF dup = {} THEN 0 ELSE CHOOSE i \in dup : \A j \in dup : i <= j

\* A cache write that leaves out the entry appended last.
SerializeAllButLast(cache) == [i \in 1..(Len(cache) - 1) |-> Serialize(cache[i])]

\* updateCachedAccessories: the document written by persist.setItemSync
SerializeAll(cache) == [i \in 1..Len(cache) |-> Serialize(cache[i])]

\* loadCachedPlatformAccessories
LoadCached(document) == [i \in 1..Len(document) |-> Deserialize(document[i])]

\* ------------------------------------------------ external accessories
ExtUUIDs == {"e1", "e2", "e3"}
Addresses == {"AA", "BB"}

\* generateAddress: the first twelve hex digits of the SHA-1 of the UUID.
\* The digest is cut to 48 bits, so distinct UUIDs can share an address:
\* here e1 and e2 do.
GenerateAddress(data) == IF data = "e3" THEN "BB" ELSE "AA"

\* An allocator that stops one port early: >= where the code has >.
AllocatePortStoppingEarly(ports, next) ==
    IF ~ports.defined THEN [port |-> 0, next |-> next]
    ELSE IF next # <<>> /\ next[1] >= ports.end THEN [port |-> 0, next |-> next]
    ELSE IF next # <<>> THEN [port |-> next[1], next |-> <<next[1] + 1>>]
    ELSE [port |-> ports.start, next |-> <<ports.start + 1>>]

\* handlePublishExternalAccessories, lines 477-495: the port of one accessory
\* and the allocator's next value; next is <<>> while undefined
AllocatePort(ports, next) ==
    IF ~ports.defined THEN [port |-> 0, next |-> next]
    ELSE IF next # <<>> /\ next[1] > ports.end THEN [port |-> 0, next |-> next]
    ELSE IF next # <<>> THEN [port |-> next[1], next |-> <<next[1] + 1>>]
    ELSE [port |-> ports.start, next |-> <<ports.start + 1>>]

\* A collision check that never finds the address taken.
CollidesNever(published, address) == FALSE

\* handlePublishExternalAccessories, line 500
Collides(published, address) == published[address] # Undefined

RECURSIVE PublishEach(_, _, _)
\* handlePublishExternalAccessories: the loop, on the state it changes
PublishEach(accessories, ports, st) ==
    IF accessories = <<>> THEN st
    ELSE LET accessory == Head(accessories)
             alloc == AllocatePort(ports, st.next)
             address == GenerateAddress(accessory)
             collision == Collides(st.published, address)
             after ==
                 [next |-> alloc.next,
                  published |-> IF collision THEN st.published
                                ELSE [st.published EXCEPT ![address] = accessory],
                  live |-> IF collision THEN st.live ELSE st.live \cup {address},
                  log |-> Append(st.log, [UUID |-> accessory, address |-> address,
                                          port |-> alloc.port, published |-> ~collision])]
         IN PublishEach(Tail(accessories), ports, after)

\* ------------------------------------------------------------- inputs
PlatformCfgs == SeqsUpTo(PlatformNames, MaxPlatforms)
AccessoryCfgs == {<< <<"ok">>, <<"unknown">>, <<"empty">> >>}
CacheDocuments == {d \in SeqsUpTo(SerializedUniverse, MaxCache) : NoDup(d)}
PortDocuments ==
    {NoPorts} \cup {Pool(s, e) : s \in 1..MaxPort, e \in 1..MaxPort}

\* ------------------------------------------------ configuration channel
\* The entries of a configured list: the name field and the rest of each
Entries(names, bodies) == [i \in 1..Len(names) |-> [name |-> names[i], rest |-> bodies[i]]]

Names(list) == [i \in 1..Len(list) |-> list[i].name]
Bodies(list) == [i \in 1..Len(list) |-> list[i].rest]

\* JSON.stringify(this.config): the two lists of the document
ConfigDocument(accessories, platforms) == [accessories |-> accessories, platforms |-> platforms]

\* handleNewConfig, lines 573-589 and 611-627: the first entry whose name is
\* the given name or, for a name with a ".", its second segment; 0 for none
MatchIndex(list, name) ==
    LET hit == {i \in 1..Len(list) :
                   \/ list[i].name = name
                   \/ Len(name) >= 2 /\ list[i].name = <<name[2]>>}
    IN IF hit = {} THEN 0 ELSE CHOOSE i \in hit : \A j \in hit : i <= j

\* A replace that leaves the list alone when no entry matches.
ApplyToListWithoutAppend(list, name, replace, config) ==
    IF ~replace THEN Append(list, config)
    ELSE LET k == MatchIndex(list, name)
         IN IF k = 0 THEN list ELSE [list EXCEPT ![k] = config]

\* handleNewConfig, lines 562-594 and 600-632: one configured list
ApplyToList(list, name, replace, config) ==
    IF ~replace THEN Append(list, config)
    ELSE LET k == MatchIndex(list, name)
         IN IF k = 0 THEN Append(list, config) ELSE [list EXCEPT ![k] = config]

\* handleNewConfig: the lists of this.config after the call
AppliedConfig(doc, type, name, replace, config) ==
    IF type = "accessory"
    THEN [doc EXCEPT !.accessories = ApplyToList(@, name, replace, config)]
    ELSE IF type = "platform"
    THEN [doc EXCEPT !.platforms = ApplyToList(@, name, replace, config)]
    ELSE doc

\* The configuration as loaded: the file holds what this.config holds.
ConfigAsLoaded ==
    /\ platformBodies = [i \in 1..Len(platformsCfg) |-> "b0"]
    /\ accessoryBodies = [i \in 1..Len(accessoriesCfg) |-> "b0"]
    /\ configFile = ConfigDocument(Entries(accessoriesCfg, accessoryBodies),
                                   Entries(platformsCfg, platformBodies))
    /\ configCalls = 0
    /\ lastConfig = [via |-> "none", type |-> "none", name |-> <<>>, replace |-> FALSE,
                     config |-> [name |-> <<>>, rest |-> "b0"]]

\* ------------------------------------------------------- plugin loading
NoAllowList == [defined |-> FALSE, list |-> <<>>]
AllowList(l) == [defined |-> TRUE, list |-> l]

\* computeActivePluginList: undefined without config.plugins, else the names
\* listed
ComputeActivePluginList(cfg) == [defined |-> cfg.defined, names |-> Range(cfg.list)]

NoneLoaded == [plugins |-> <<>>, initialized |-> <<>>, errors |-> {}]

RECURSIVE LoadPluginsStoppingAtFailure(_, _, _, _)
\* A loader whose loop ends at the first plugin that fails to load.
LoadPluginsStoppingAtFailure(list, activePlugins, fails, st) ==
    IF list = <<>> THEN st
    ELSE LET plugin == Head(list)
         IN IF activePlugins.defined /\ plugin \notin activePlugins.names
            THEN LoadPluginsStoppingAtFailure(Tail(list), activePlugins, fails, st)
            ELSE IF plugin \in fails
            THEN [st EXCEPT !.errors = @ \cup {plugin}]
            ELSE LoadPluginsStoppingAtFailure(Tail(list), activePlugins, fails,
                     [st EXCEPT !.plugins = Append(@, plugin),
                                !.initialized = Append(@, plugin)])

RECURSIVE LoadPlugins(_, _, _, _)
\* loadPlugins: the forEach over Plugin.installed().  A plugin outside the
\* allow-list is passed over; one whose load() throws gets its loadError; any
\* other is recorded in this.plugins and its initializer is called.
LoadPlugins(list, activePlugins, fails, st) ==
    IF list = <<>> THEN st
    ELSE LET plugin == Head(list)
         IN IF activePlugins.defined /\ plugin \notin activePlugins.names
            THEN LoadPlugins(Tail(list), activePlugins, fails, st)
            ELSE IF plugin \in fails
            THEN LoadPlugins(Tail(list), activePlugins, fails,
                     [st EXCEPT !.errors = @ \cup {plugin}])
            ELSE LoadPlugins(Tail(list), activePlugins, fails,
                     [st EXCEPT !.plugins = Append(@, plugin),
                                !.initialized = Append(@, plugin)])

\* The dynamic platforms the initialized plugins can have registered
RegisteredBy(names) == {d \in DynamicCandidates : d[1] \in Range(names)}

\* ------------------------------------------------------------ initial state
\* The inputs of a run, drawn from the given sets.
Inputs(in) ==
    /\ platformsCfg \in in.platforms
    /\ accessoriesCfg \in AccessoryCfgs
    /\ removeOrphans \in in.orphans
    /\ optsConfig \in in.opts
    /\ configPorts \in in.ports
    /\ apiOffered = in.apiLists
    /\ apiBudget = in.api
    /\ extOffered = in.extLists
    /\ extBudget = in.ext
    /\ persisted \in in.caches
    /\ ConfigAsLoaded

\* Nothing loaded, nothing bridged, nothing published, no signal yet.
Fresh ==
    /\ idx = 1
    /\ asyncCalls = 0
    /\ asyncWait = FALSE
    /\ pending = {}
    /\ instances = <<>>
    /\ activeDynamicPlugins = [k \in Keys |-> 0]
    /\ nextExternalPort = <<>>
    /\ publishedAccessories = [a \in Addresses |-> Undefined]
    /\ bridged = {}
    /\ bridgedStatic = {}
    /\ bridgePublished = FALSE
    /\ extLive = {}
    /\ terminating = FALSE
    /\ selfSignal = FALSE
    /\ timerSet = FALSE
    /\ exited = FALSE
    /\ faulted = FALSE
    /\ shutdownLog = <<>>
    /\ publishCount = 0
    /\ publishInfo = NoUsername
    /\ sent = {}
    /\ extLog = <<>>
    /\ envSignals = 0
    /\ teardowns = 0
    /\ apiCalls = 0
    /\ lastApi = [op |-> "none", list |-> <<>>, threw |-> FALSE]
    /\ lastFound = [entry |-> 0, found |-> <<>>]
    /\ removed = {}

\* The state after new Server(opts) and the installation of the signal
\* handlers, for inputs drawn from the given sets; plugin p is installed and
\* loads.
InitWith(in) ==
    /\ Inputs(in)
    /\ Fresh
    /\ installed = <<"p">>
    /\ pluginsCfg = NoAllowList
    /\ failing = {}
    /\ LET st == LoadPlugins(installed, ComputeActivePluginList(pluginsCfg), failing, NoneLoaded)
       IN /\ plugins = st.plugins
          /\ initialized = st.initialized
          /\ loadErrors = st.errors
    /\ dynamicPlatforms \in in.dynamic
    /\ pc = "run"
    /\ bridgeFile = BridgeWith(DefaultUsername)
    /\ bridgeUsername = ConstructBridgeUsername(optsConfig, bridgeFile)
    /\ cachedPlatformAccessories = LoadCached(persisted)
    /\ externalPorts = ConstructExternalPorts(optsConfig, configPorts)

\* ---------------------------------------------------------------- faults
RunPcs == {"platforms", "dynamic", "cache", "finish"}

\* An exception leaves a handler.  Plugin code on the call stack may catch
\* it (a try/catch, a promise turning it into a rejection); otherwise, while
\* run() is on the stack it unwinds run(), and the cli's uncaughtException
\* handler sends SIGTERM to the process unless it is terminating already.
Thrown(caught) ==
    /\ pc' = IF ~caught /\ pc \in RunPcs THEN "aborted" ELSE pc
    /\ selfSignal' = (selfSignal \/ (~caught /\ ~terminating))
    /\ faulted' = (faulted \/ ~caught)

NotThrown == UNCHANGED <<pc, selfSignal, faulted>>

\* Plugins call into the api only while their code runs: synchronously from
\* inside run() once it has constructed a platform or an accessory, or from
\* their own timers and events between handlers.
PluginCodeRuns ==
    /\ initialized # <<>>
    /\ \/ pc = "platforms" /\ instances # <<>>
       \/ pc \in {"dynamic", "cache", "finish", "launched", "aborted"}

\* --------------------------------------------------------------- publish
\* publish, line 123: username: bridgeConfig.username || "CC:22:3D:E3:CE:30"
PublishInfoUsername(username) ==
    IF username = NoUsername \/ username = <<>> THEN DefaultUsername ELSE username

\* Server.publish
Publish ==
    /\ bridgePublished' = TRUE
    /\ publishCount' = publishCount + 1
    /\ publishInfo' = PublishInfoUsername(bridgeUsername)

\* publish and printSetupInfo: the events of process.send
SentByPublish == {"setup_uri", "running"}

\* The publish decision of a callback that forgets the asyncWait guard.
CallbackPublishesIgnoringWait(calls, wait) == calls = 0

\* loadPlatformAccessories, line 368: the callback's publish decision
CallbackPublishes(calls, wait) == calls = 0 /\ ~wait

\* run, line 100
RunPublishes(calls) == calls = 0

\* ----------------------------------------------------------- construction
\* cli, lines 81-84: new Server(opts).  The constructor loads the plugins,
\* whose initializers register their platforms, and the cached accessories.
\* An exception that leaves it (an initializer, persist.initSync or loadConfig
\* throwing) ends the process: the uncaughtException handler is installed
\* only afterwards (cli, line 111), so node prints the error and exits.
Construct(fault) ==
    /\ pc = "new" /\ ~exited
    /\ IF fault \/ (~optsConfig /\ LoadConfigThrows(bridgeFile))
       THEN /\ pc' = "crashed"
            /\ exited' = TRUE
            /\ faulted' = TRUE
            /\ UNCHANGED <<plugins, initialized, loadErrors, dynamicPlatforms,
                           cachedPlatformAccessories, externalPorts, bridgeUsername>>
       ELSE LET st == LoadPlugins(installed, ComputeActivePluginList(pluginsCfg), failing,
                                  NoneLoaded)
            IN /\ plugins' = st.plugins
               /\ initialized' = st.initialized
               /\ loadErrors' = st.errors
               /\ dynamicPlatforms' \in SUBSET RegisteredBy(st.initialized)
               /\ cachedPlatformAccessories' = LoadCached(persisted)
               /\ externalPorts' = ConstructExternalPorts(optsConfig, configPorts)
               /\ bridgeUsername' = ConstructBridgeUsername(optsConfig, bridgeFile)
               /\ pc' = "run"
               /\ UNCHANGED <<exited, faulted>>
    /\ UNCHANGED <<platformsCfg, accessoriesCfg, removeOrphans, optsConfig, configPorts,
                   apiOffered, apiBudget, extOffered, extBudget, installed, pluginsCfg,
                   failing, configVars, bridgeFile, idx, asyncCalls, asyncWait, pending, instances,
                   activeDynamicPlugins, persisted, removed, nextExternalPort,
                   publishedAccessories, extLive, extLog, bridgeVars, terminating,
                   selfSignal, timerSet, envSignals, teardowns, shutdownLog, apiVars>>

\* ------------------------------------------------------------------- run
\* run, lines 82-83
RunStart ==
    /\ pc = "run" /\ ~exited
    /\ asyncCalls' = 0
    /\ asyncWait' = TRUE
    /\ pc' = "platforms"
    /\ UNCHANGED <<inputVars, idx, pending, instances, activeDynamicPlugins, cacheVars,
                   extVars, bridgeVars, cliVars, apiVars>>

\* loadPlatforms: one pass of the loop, entry idx of config.platforms
LoadPlatform ==
    /\ pc = "platforms" /\ ~exited
    /\ idx <= Len(platformsCfg)
    /\ LET name == platformsCfg[idx]
           init == ApiPlatform(name, dynamicPlatforms)
       IN IF init = <<>>
          THEN UNCHANGED <<asyncCalls, pending, instances, activeDynamicPlugins>>
          ELSE /\ instances' = Append(instances, [platform |-> init, key |-> name, config |-> "entry"])
               /\ IF init \in dynamicPlatforms
                  THEN /\ activeDynamicPlugins' = Put(activeDynamicPlugins, name, Len(instances) + 1)
                       /\ UNCHANGED <<asyncCalls, pending>>
                  ELSE \* loadPlatformAccessories: the discovery call is handed its callback
                       /\ asyncCalls' = asyncCalls + 1
                       /\ pending' = pending \cup {idx}
                       /\ UNCHANGED activeDynamicPlugins
    /\ idx' = idx + 1
    /\ UNCHANGED <<inputVars, pc, asyncWait, cacheVars, extVars, bridgeVars, cliVars, apiVars>>

\* loadAccessories: createAccessory gives undefined for an accessory without
\* services and controllers, and such an accessory is not bridged.
LoadAccessories ==
    /\ pc = "platforms" /\ ~exited
    /\ idx > Len(platformsCfg)
    /\ bridgedStatic' = bridgedStatic \cup
           {<<0, i>> : i \in {j \in 1..Len(accessoriesCfg) : accessoriesCfg[j] = <<"ok">>}}
    /\ pc' = "dynamic"
    /\ UNCHANGED <<inputVars, idx, asyncCalls, asyncWait, pending, instances,
                   activeDynamicPlugins, cacheVars, extVars, bridged, bridgePublished,
                   publishCount, publishInfo, sent, cliVars, apiVars>>

\* A test by the full name only: the bare key of a platform declared without
\* its plugin prefix is not looked at.
UnconfiguredByFullName(active, dynamic) == {name \in dynamic : Get(active, name) = 0}

\* loadDynamicPlatforms: the registered dynamic platforms not yet active
Unconfigured(active, dynamic) ==
    {name \in dynamic : Get(active, name) = 0 /\ Get(active, SplitSecond(name)) = 0}

RECURSIVE LoadEachDynamic(_, _, _)
\* loadDynamicPlatforms, lines 301-311, for each of the names: the instance is
\* constructed with a null configuration and recorded under the full name
LoadEachDynamic(todo, insts, active) ==
    IF todo = {} THEN [instances |-> insts, active |-> active]
    ELSE LET name == CHOOSE n \in todo : TRUE
         IN LoadEachDynamic(todo \ {name},
                            Append(insts, [platform |-> name, key |-> name, config |-> "null"]),
                            Put(active, name, Len(insts) + 1))

LoadDynamicPlatforms ==
    /\ pc = "dynamic" /\ ~exited
    /\ LET after == LoadEachDynamic(Unconfigured(activeDynamicPlugins, dynamicPlatforms),
                                    instances, activeDynamicPlugins)
       IN /\ instances' = after.instances
          /\ activeDynamicPlugins' = after.active
    /\ pc' = "cache"
    /\ UNCHANGED <<inputVars, idx, asyncCalls, asyncWait, pending, cacheVars, extVars,
                   bridgeVars, cliVars, apiVars>>

\* configCachedPlatformAccessories.  bridge.addBridgedAccessory throws for a
\* UUID the bridge holds already: the loop stops there, run() unwinds and
\* this.cachedPlatformAccessories keeps the list it had.
ConfigCachedPlatformAccessories ==
    /\ pc = "cache" /\ ~exited
    /\ LET verified == Reconcile(cachedPlatformAccessories, activeDynamicPlugins, removeOrphans)
           dup == FirstDuplicate(verified, bridged)
           added == IF dup = 0 THEN verified ELSE SubSeq(verified, 1, dup - 1)
       IN /\ bridged' = bridged \cup {added[i].UUID : i \in 1..Len(added)}
          /\ IF dup = 0
             THEN /\ cachedPlatformAccessories' = verified
                  /\ removed' = removed \cup
                         ({cachedPlatformAccessories[i].UUID : i \in 1..Len(cachedPlatformAccessories)}
                          \ {verified[i].UUID : i \in 1..Len(verified)})
                  /\ pc' = "finish"
                  /\ UNCHANGED <<selfSignal, faulted>>
             ELSE /\ UNCHANGED <<cachedPlatformAccessories, removed>>
                  /\ Thrown(FALSE)
    /\ UNCHANGED <<inputVars, idx, asyncCalls, asyncWait, pending, instances,
                   activeDynamicPlugins, persisted, extVars, bridgedStatic, bridgePublished,
                   publishCount, publishInfo, sent, terminating, timerSet, exited, envSignals, teardowns, shutdownLog,
                   apiVars>>

\* run, lines 95-106
Finish ==
    /\ pc = "finish" /\ ~exited
    /\ asyncWait' = FALSE
    /\ IF RunPublishes(asyncCalls)
       THEN /\ Publish
            /\ sent' = sent \cup SentByPublish \cup {"api_launched"}
       ELSE /\ sent' = sent \cup {"api_launched"}
            /\ UNCHANGED <<bridgePublished, publishCount, publishInfo>>
    /\ pc' = "launched"
    /\ UNCHANGED <<inputVars, idx, asyncCalls, pending, instances, activeDynamicPlugins,
                   cacheVars, extVars, bridged, bridgedStatic, cliVars, apiVars>>

\* ------------------------------------------------- discovery callbacks
FoundLists == SeqsUpTo({"ok", "empty"}, MaxFound)

\* The first accessory of the list for which createAccessory gives undefined
\* (no services, no controllers), 0 when there is none.
FirstEmpty(found) ==
    LET empty == {i \in 1..Len(found) : found[i] = "empty"}
    IN IF empty = {} THEN 0 ELSE CHOOSE i \in empty : \A j \in empty : i <= j

\* loadPlatformAccessories, lines 357-371: the platform of entry i invokes
\* its callback with foundAccessories.  once() lets it through one time.
\* bridge.addBridgedAccessory(undefined) throws a TypeError, which ends the
\* callback before its publish decision.
Callback(i, found, caught) ==
    /\ i \in pending /\ ~exited
    /\ pending' = pending \ {i}
    /\ asyncCalls' = asyncCalls - 1
    /\ lastFound' = [entry |-> i, found |-> found]
    /\ LET stop == FirstEmpty(found)
           last == IF stop = 0 THEN Len(found) ELSE stop - 1
       IN /\ bridgedStatic' = bridgedStatic \cup {<<i, k>> : k \in 1..last}
          /\ IF stop = 0
             THEN /\ NotThrown
                  /\ caught = FALSE
                  /\ IF CallbackPublishes(asyncCalls', asyncWait)
                     THEN /\ Publish
                          /\ sent' = sent \cup SentByPublish
                     ELSE UNCHANGED <<bridgePublished, publishCount, publishInfo, sent>>
             ELSE /\ Thrown(caught)
                  /\ UNCHANGED <<bridgePublished, publishCount, publishInfo, sent>>
    /\ UNCHANGED <<inputVars, idx, asyncWait, instances, activeDynamicPlugins, cacheVars,
                   extVars, bridged, terminating, timerSet, exited, envSignals, teardowns, shutdownLog,
                   apiCalls, lastApi>>

\* ------------------------------------------------- platform accessories
\* What plugins hand to api.registerPlatformAccessories and
\* api.unregisterPlatformAccessories.
ApiLists == {<<"u1">>, <<"u2">>, <<"u1", "u2">>}

\* bridge.addBridgedAccessories adds one by one and throws at the first UUID
\* the bridge holds already: the position of that one, 0 when all are new.
FirstBridged(list, onBridge) ==
    LET dup == {i \in 1..Len(list) : list[i] \in onBridge}
    IN IF dup = {} THEN 0 ELSE CHOOSE i \in dup : \A j \in dup : i <= j

\* bridge.removeBridgedAccessories removes one by one and throws at the first
\* accessory the bridge does not hold: its position, 0 when all are held.
FirstNotBridged(list, onBridge) ==
    LET gone == {i \in 1..Len(list) : list[i] \notin onBridge}
    IN IF gone = {} THEN 0 ELSE CHOOSE i \in gone : \A j \in gone : i <= j

\* handleRegisterPlatformAccessories, lines 434-440
Pushed(cache, list) == cache \o [i \in 1..Len(list) |-> NewPlatformAccessory(list[i])]

\* handleUnregisterPlatformAccessories, lines 460-466: splice of the first
\* entry with the UUID
RemoveFirst(cache, u) ==
    LET hit == {i \in 1..Len(cache) : cache[i].UUID = u}
    IN IF hit = {} THEN cache
       ELSE LET k == CHOOSE i \in hit : \A j \in hit : i <= j
            IN SubSeq(cache, 1, k - 1) \o SubSeq(cache, k + 1, Len(cache))

RECURSIVE Spliced(_, _)
\* handleUnregisterPlatformAccessories, lines 453-467
Spliced(cache, list) ==
    IF list = <<>> THEN cache ELSE Spliced(RemoveFirst(cache, Head(list)), Tail(list))

\* handleRegisterPlatformAccessories
HandleRegisterPlatformAccessories(list, caught) ==
    /\ PluginCodeRuns /\ ~exited /\ apiCalls < apiBudget
    /\ apiCalls' = apiCalls + 1
    /\ lastApi' = [op |-> "register", list |-> list, threw |-> FirstBridged(list, bridged) # 0]
    /\ cachedPlatformAccessories' = Pushed(cachedPlatformAccessories, list)
    /\ removed' = removed \ Range(list)
    /\ LET dup == FirstBridged(list, bridged)
           added == IF dup = 0 THEN list ELSE SubSeq(list, 1, dup - 1)
       IN /\ bridged' = bridged \cup Range(added)
          /\ IF dup = 0
             THEN /\ persisted' = SerializeAll(cachedPlatformAccessories')
                  /\ caught = FALSE
                  /\ NotThrown
             ELSE /\ UNCHANGED persisted
                  /\ Thrown(caught)
    /\ UNCHANGED <<inputVars, idx, asyncCalls, asyncWait, pending, instances,
                   activeDynamicPlugins, extVars, bridgedStatic, bridgePublished,
                   publishCount, publishInfo, sent, terminating, timerSet, exited, envSignals, teardowns, shutdownLog,
                   lastFound>>

\* handleUpdatePlatformAccessories
HandleUpdatePlatformAccessories ==
    /\ PluginCodeRuns /\ ~exited /\ apiCalls < apiBudget
    /\ apiCalls' = apiCalls + 1
    /\ lastApi' = [op |-> "update", list |-> <<>>, threw |-> FALSE]
    /\ persisted' = SerializeAll(cachedPlatformAccessories)
    /\ UNCHANGED <<inputVars, runVars, cachedPlatformAccessories, removed, extVars,
                   bridgeVars, cliVars, lastFound>>

\* handleUnregisterPlatformAccessories
HandleUnregisterPlatformAccessories(list, caught) ==
    /\ PluginCodeRuns /\ ~exited /\ apiCalls < apiBudget
    /\ apiCalls' = apiCalls + 1
    /\ lastApi' = [op |-> "unregister", list |-> list, threw |-> FirstNotBridged(list, bridged) # 0]
    /\ cachedPlatformAccessories' = Spliced(cachedPlatformAccessories, list)
    /\ LET gone == FirstNotBridged(list, bridged)
           taken == IF gone = 0 THEN list ELSE SubSeq(list, 1, gone - 1)
       IN /\ bridged' = bridged \ Range(taken)
          /\ IF gone = 0
             THEN /\ persisted' = SerializeAll(cachedPlatformAccessories')
                  /\ caught = FALSE
                  /\ NotThrown
             ELSE /\ UNCHANGED persisted
                  /\ Thrown(caught)
    /\ UNCHANGED <<inputVars, idx, asyncCalls, asyncWait, pending, instances,
                   activeDynamicPlugins, removed, extVars, bridgedStatic, bridgePublished,
                   publishCount, publishInfo, sent, terminating, timerSet, exited, envSignals, teardowns, shutdownLog,
                   lastFound>>

\* ------------------------------------------------- external accessories
ExtLists == {l \in SeqsUpTo(ExtUUIDs, 2) : l # <<>>}

\* handlePublishExternalAccessories
HandlePublishExternalAccessories(list) ==
    /\ PluginCodeRuns /\ ~exited
    /\ Len(extLog) + Len(list) <= extBudget
    /\ LET after == PublishEach(list, externalPorts,
                                [next |-> nextExternalPort, published |-> publishedAccessories,
                                 live |-> extLive, log |-> extLog])
       IN /\ nextExternalPort' = after.next
          /\ publishedAccessories' = after.published
          /\ extLive' = after.live
          /\ extLog' = after.log
    /\ UNCHANGED <<inputVars, runVars, cacheVars, externalPorts, bridgeVars, cliVars, apiVars>>

\* -------------------------------------------------------------- shutdown
\* Object.keys(this.publishedAccessories): the recorded addresses, in the
\* order they were recorded
PublishedOrder(log) ==
    LET published == SelectSeq(log, LAMBDA e : e.published)
    IN [i \in 1..Len(published) |-> published[i].address]

\* A handler without the guard: the shutdown runs for every signal.
HandlerReturnsNever(flag) == FALSE

\* cli, lines 92-94: if (terminating) return
HandlerReturns(flag) == flag

\* A teardown that unpublishes the bridge before it writes the cache.
TeardownStepsBridgeFirst(addresses) == <<"unpublishBridge", "persist">> \o addresses

\* Server.teardown: updateCachedAccessories, bridge.unpublish, then unpublish
\* of the accessory recorded under each address
TeardownSteps(addresses) == <<"persist", "unpublishBridge">> \o addresses

\* Where teardown raises: 0 for nowhere, k when its k-th step throws (a failed
\* write of node-persist, a failed unpublish of hap-nodejs).
RaisePoints == 0..(2 + Cardinality(Addresses))

\* The handler of SIGINT and SIGTERM (cli, lines 92-108) with Server.teardown.
\* An exception of teardown leaves the handler before api.emit and setTimeout;
\* the uncaughtException handler then finds terminating set and does nothing.
SignalHandler(raiseAt) ==
    IF HandlerReturns(terminating)
    THEN /\ raiseAt = 0
         /\ UNCHANGED <<terminating, persisted, bridgePublished, extLive, teardowns, timerSet,
                        shutdownLog, faulted>>
    ELSE LET steps == TeardownSteps(PublishedOrder(extLog))
             done == IF raiseAt = 0 THEN steps ELSE SubSeq(steps, 1, raiseAt - 1)
             started == IF raiseAt = 0 THEN steps ELSE SubSeq(steps, 1, raiseAt)
         IN /\ raiseAt <= Len(steps)
            /\ terminating' = TRUE
            /\ teardowns' = teardowns + 1
            /\ persisted' = IF "persist" \in Range(done)
                            THEN SerializeAll(cachedPlatformAccessories) ELSE persisted
            /\ bridgePublished' = IF "unpublishBridge" \in Range(done) THEN FALSE
                                  ELSE bridgePublished
            /\ extLive' = extLive \ Range(done)
            /\ IF raiseAt = 0
               THEN /\ shutdownLog' = shutdownLog \o started \o <<"emitShutdown">>
                    /\ timerSet' = TRUE
                    /\ UNCHANGED faulted
               ELSE /\ shutdownLog' = shutdownLog \o started
                    /\ faulted' = TRUE
                    /\ UNCHANGED timerSet

\* Signals are handled between handlers, never while run() is on the stack.
Idle == pc \in {"launched", "aborted"}

\* SIGINT or SIGTERM from the environment
EnvSignal(raiseAt) ==
    /\ Idle /\ ~exited /\ envSignals < MaxSignals
    /\ envSignals' = envSignals + 1
    /\ SignalHandler(raiseAt)
    /\ UNCHANGED <<inputVars, runVars, cachedPlatformAccessories, removed, externalPorts,
                   nextExternalPort, publishedAccessories, extLog, bridged, bridgedStatic,
                   publishCount, publishInfo, sent, selfSignal, exited, apiVars>>

\* The SIGTERM of the uncaughtException handler (cli, lines 111-117) arrives
SelfSignal(raiseAt) ==
    /\ Idle /\ ~exited /\ selfSignal
    /\ selfSignal' = FALSE
    /\ SignalHandler(raiseAt)
    /\ UNCHANGED <<inputVars, runVars, cachedPlatformAccessories, removed, externalPorts,
                   nextExternalPort, publishedAccessories, extLog, bridged, bridgedStatic,
                   publishCount, publishInfo, sent, exited, envSignals, apiVars>>

\* The exit timer fires (cli, lines 104-107)
Exit ==
    /\ timerSet /\ ~exited
    /\ sent' = sent \cup {"shutdown"}
    /\ exited' = TRUE
    /\ shutdownLog' = shutdownLog \o <<"sendShutdown", "exit">>
    /\ UNCHANGED <<inputVars, runVars, cacheVars, extVars, bridged, bridgedStatic,
                   bridgePublished, publishCount, publishInfo, terminating, selfSignal, timerSet,
                   faulted, envSignals, teardowns, apiVars>>

\* ------------------------------------------------------------------ system
Next ==
    \/ RunStart
    \/ LoadPlatform
    \/ LoadAccessories
    \/ LoadDynamicPlatforms
    \/ ConfigCachedPlatformAccessories
    \/ Finish
    \/ \E i \in 1..MaxPlatforms, found \in FoundLists, caught \in BOOLEAN :
           Callback(i, found, caught)
    \/ \E list \in apiOffered, caught \in BOOLEAN : HandleRegisterPlatformAccessories(list, caught)
    \/ HandleUpdatePlatformAccessories
    \/ \E list \in apiOffered, caught \in BOOLEAN : HandleUnregisterPlatformAccessories(list, caught)
    \/ \E list \in extOffered : HandlePublishExternalAccessories(list)
    \/ \E raiseAt \in RaisePoints : EnvSignal(raiseAt)
    \/ \E raiseAt \in RaisePoints : SelfSignal(raiseAt)
    \/ Exit

\* The publish lifecycle: the configurations of platforms, little else.
Init ==
    InitWith([platforms |-> SeqsUpTo({<<"S">>, <<"A">>, <<"N">>}, MaxPlatforms),
              dynamic |-> SUBSET DynamicCandidates,
              orphans |-> {FALSE}, opts |-> {FALSE},
              caches |-> {<<Serialize(NewPlatformAccessory("u1"))>>},
              ports |-> {Pool(1, 1)},
              apiLists |-> ApiLists, api |-> 1,
              extLists |-> {<<"e3">>}, ext |-> 1])

Spec == Init /\ [][Next]_vars

\* External accessories: every port document, up to MaxExt accessories.
InitPorts ==
    InitWith([platforms |-> {<<<<"S">>>>}, dynamic |-> {{}},
              orphans |-> {FALSE}, opts |-> BOOLEAN, caches |-> {<<>>},
              ports |-> PortDocuments,
              apiLists |-> {<<"u1">>}, api |-> 1,
              extLists |-> ExtLists, ext |-> MaxExt])

SpecPorts == InitPorts /\ [][Next]_vars

\* The accessory cache: every cache document, up to MaxApiCalls api calls;
\* with a static platform configured, the documents of at most one entry.
CacheInputs ==
    [platforms |-> {<<>>, <<<<"A">>>>, <<<<"p", "A">>>>},
     dynamic |-> SUBSET DynamicCandidates,
     orphans |-> BOOLEAN, opts |-> {FALSE}, caches |-> CacheDocuments,
     ports |-> {NoPorts},
     apiLists |-> ApiLists, api |-> MaxApiCalls,
     extLists |-> {<<"e3">>}, ext |-> 1]

InitCache ==
    \/ InitWith(CacheInputs)
    \/ InitWith([CacheInputs EXCEPT !.platforms = {<<<<"S">>>>},
                                    !.caches = {d \in CacheDocuments : Len(d) <= 1}])

SpecCache == InitCache /\ [][Next]_vars

\* The process from its start: every list of installed plugins, allow-list
\* and set of failing plugins.
InstalledLists == {l \in SeqsUpTo(PluginNames, MaxPlugins) : NoDup(l)}

InitBoot ==
    /\ Inputs([platforms |-> {<<<<"S">>, <<"A">>>>},
               orphans |-> {FALSE}, opts |-> {FALSE},
               caches |-> {<<Serialize(NewPlatformAccessory("u1"))>>},
               ports |-> {Pool(1, 1)},
               apiLists |-> {<<"u1">>}, api |-> 1,
               extLists |-> {<<"e3">>}, ext |-> 1])
    /\ Fresh
    /\ installed \in InstalledLists
    /\ pluginsCfg \in {NoAllowList} \cup {AllowList(l) : l \in InstalledLists}
    /\ failing \in SUBSET Range(installed)
    /\ plugins = <<>>
    /\ initialized = <<>>
    /\ loadErrors = {}
    /\ dynamicPlatforms = {}
    /\ pc = "new"
    /\ bridgeFile = BridgeWith(DefaultUsername)
    /\ bridgeUsername = NoUsername
    /\ cachedPlatformAccessories = <<>>
    /\ externalPorts = NoPorts

NextBoot ==
    \/ \E fault \in BOOLEAN : Construct(fault)
    \/ Next

SpecBoot == InitBoot /\ [][NextBoot]_vars

\* ------------------------------------------------ configuration channel
ConfigTypes == {"accessory", "platform"}
EntryNames == {<<"A">>, <<"p", "A">>, <<"B">>}
NewBodies == {[name |-> n, rest |-> "b1"] : n \in EntryNames}

\* handleNewConfig(type, name, replace, config): the lists are changed and the
\* whole document is written to the configuration path
HandleNewConfig(via, type, name, replace, config, passed) ==
    /\ ~exited /\ pc \notin {"new", "crashed"}
    /\ configCalls < MaxConfigCalls
    /\ configCalls' = configCalls + 1
    /\ lastConfig' = [via |-> via, type |-> type, name |-> name, replace |-> replace,
                      config |-> config]
    /\ LET doc == ConfigDocument(Entries(accessoriesCfg, accessoryBodies),
                                 Entries(platformsCfg, platformBodies))
           after == IF passed THEN AppliedConfig(doc, type, name, replace, config)
                    ELSE AppliedConfig(doc, Undefined, name, replace, config)
       IN /\ accessoriesCfg' = Names(after.accessories)
          /\ accessoryBodies' = Bodies(after.accessories)
          /\ platformsCfg' = Names(after.platforms)
          /\ platformBodies' = Bodies(after.platforms)
          /\ configFile' = after
    /\ UNCHANGED <<dynamicPlatforms, removeOrphans, optsConfig, configPorts, apiOffered,
                   apiBudget, extOffered, extBudget, pluginVars, identityVars, runVars, cacheVars, extVars,
                   bridgeVars, cliVars, apiVars>>

\* A caller applies handleNewConfig with its four arguments.
HandleNewConfigCall(type, name, replace, config) ==
    HandleNewConfig("call", type, name, replace, config, TRUE)

\* constructor, lines 72-74: the listener of the setup manager's newConfig
\* event calls this.handleNewConfig() and hands over none of what the event
\* carries, so type is undefined inside.
NewConfigEvent(type, name, replace, config) ==
    HandleNewConfig("event", type, name, replace, config, FALSE)

ConfigLists == {Entries(names, [i \in 1..Len(names) |-> "b0"]) :
                    names \in SeqsUpTo(EntryNames, MaxEntries)}

\* A constructed Server with every configuration of up to MaxEntries entries
\* per list.
InitConfig ==
    /\ platformsCfg \in {Names(l) : l \in ConfigLists}
    /\ accessoriesCfg \in {Names(l) : l \in ConfigLists}
    /\ removeOrphans = FALSE
    /\ optsConfig = FALSE
    /\ configPorts = NoPorts
    /\ apiOffered = {}
    /\ apiBudget = 0
    /\ extOffered = {}
    /\ extBudget = 0
    /\ persisted = <<>>
    /\ ConfigAsLoaded
    /\ Fresh
    /\ installed = <<"p">>
    /\ pluginsCfg = NoAllowList
    /\ failing = {}
    /\ plugins = <<"p">>
    /\ initialized = <<"p">>
    /\ loadErrors = {}
    /\ dynamicPlatforms = {}
    /\ pc = "run"
    /\ bridgeFile = BridgeWith(DefaultUsername)
    /\ bridgeUsername = DefaultUsername
    /\ cachedPlatformAccessories = <<>>
    /\ externalPorts = NoPorts

NextConfig ==
    \/ \E type \in ConfigTypes, name \in EntryNames, replace \in BOOLEAN, config \in NewBodies :
           HandleNewConfigCall(type, name, replace, config)
    \/ \E type \in ConfigTypes, name \in EntryNames, replace \in BOOLEAN, config \in NewBodies :
           NewConfigEvent(type, name, replace, config)

SpecConfig == InitConfig /\ [][NextConfig]_vars

\* -------------------------------------------------------- bridge identity
\* Pairs of characters a username is written with: upper-case and lower-case
\* hex digits, a letter that is no hex digit, a single digit.
WrittenPairs == {<<"C", "C">>, <<"c", "c">>, <<"3", "e">>, <<"G", "0">>, <<"A">>}

RECURSIVE Colons(_)
\* The pairs joined by ":"
Colons(pairs) ==
    IF pairs = <<>> THEN <<>>
    ELSE IF Len(pairs) = 1 THEN pairs[1]
    ELSE pairs[1] \o <<":">> \o Colons(Tail(pairs))

\* The usernames a configuration file is written with: five or six pairs, the
\* first and the last of them varied, the empty text and none at all.
WrittenUsernames ==
    {Colons(<<first, <<"2", "2">>, <<"3", "D">>, <<"E", "3">>, <<"C", "E">>>> \o last) :
         first \in WrittenPairs, last \in {<<>>} \cup {<<pair>> : pair \in WrittenPairs}}
    \cup {<<>>, NoUsername}

ConfigFiles == {NoFile, Unparsable, NoBridge} \cup {BridgeWith(u) : u \in WrittenUsernames}

\* The process from its start, for every configuration file; a file that is
\* absent or unparsable contributes no platforms and no accessories.
InitIdentity ==
    /\ bridgeFile \in ConfigFiles
    /\ platformsCfg = IF bridgeFile.state = "parsed" THEN <<<<"S">>>> ELSE <<>>
    /\ accessoriesCfg = IF bridgeFile.state = "parsed" THEN <<<<"ok">>, <<"empty">>>> ELSE <<>>
    /\ removeOrphans = FALSE
    /\ optsConfig = FALSE
    /\ configPorts = NoPorts
    /\ apiOffered = {<<"u1">>}
    /\ apiBudget = 1
    /\ extOffered = {<<"e3">>}
    /\ extBudget = 1
    /\ persisted = <<>>
    /\ ConfigAsLoaded
    /\ Fresh
    /\ installed = <<"p">>
    /\ pluginsCfg = NoAllowList
    /\ failing = {}
    /\ plugins = <<>>
    /\ initialized = <<>>
    /\ loadErrors = {}
    /\ dynamicPlatforms = {}
    /\ pc = "new"
    /\ bridgeUsername = NoUsername
    /\ cachedPlatformAccessories = <<>>
    /\ externalPorts = NoPorts

\* new Server with nothing but loadConfig able to throw, then the process
NextIdentity ==
    \/ Construct(FALSE)
    \/ Next

SpecIdentity == InitIdentity /\ [][NextIdentity]_vars

\* The scheduling of node: run() runs to its end, an armed timer fires and a
\* signal sent to the process is delivered.  That every discovery call invokes
\* its callback is the assumption of the liveness claim.
Fairness ==
    /\ WF_vars(RunStart \/ LoadPlatform \/ LoadAccessories \/ LoadDynamicPlatforms
               \/ ConfigCachedPlatformAccessories \/ Finish)
    /\ WF_vars(\E i \in 1..MaxPlatforms, found \in FoundLists, caught \in BOOLEAN :
                   Callback(i, found, caught))
    /\ WF_vars(\E raiseAt \in RaisePoints : SelfSignal(raiseAt))
    /\ WF_vars(Exit)

FairSpec == Init /\ [][Next]_vars /\ Fairness

\* ------------------------------------------------------------------ claims
StaticInstances == {i \in 1..Len(instances) : instances[i].platform \in StaticPlatforms}

\* C1: Server.publish has been invoked only if the load pass of run() is over
\* and no discovery call started by loadPlatformAccessories still waits for
\* its callback; while a callback is outstanding the bridge is unpublished.
C1_NoPublishBeforeAllReported ==
    publishCount > 0 => (pc = "launched" /\ pending = {})

\* C1 witness: two static platforms have reported and the bridge is published.
C1_Witness ==
    /\ publishCount = 1
    /\ Cardinality(StaticInstances) = 2
    /\ pending = {}

\* C2: Server.publish is invoked at most once, and once the load pass is over
\* and every discovery callback has been invoked it has been invoked exactly
\* once.
C2_PublishExactlyOnce ==
    /\ publishCount <= 1
    /\ (pc = "launched" /\ pending = {}) => publishCount = 1

\* C3: if every discovery call invokes its callback and the process never
\* handles a termination signal, the bridge is eventually published and the
\* running event sent.
C3_EventuallyPublished ==
    ([](~terminating)) => <>(publishCount > 0 /\ "running" \in sent)

\* C2 holds in its first half only: publish is never invoked twice.
PublishAtMostOnce == publishCount <= 1

PoolSize == externalPorts.end - externalPorts.start + 1

\* C4: with a pool {start: S, end: E}, S <= E, the k-th accessory handled by
\* handlePublishExternalAccessories is given port S + k - 1 while k <= E - S + 1
\* and port 0 afterwards, and no port but 0 is given twice.
C4_PortsInOrder ==
    /\ (externalPorts.defined /\ externalPorts.start <= externalPorts.end) =>
           \A k \in 1..Len(extLog) :
               extLog[k].port = IF k <= PoolSize THEN externalPorts.start + k - 1 ELSE 0
    /\ \A j, k \in 1..Len(extLog) :
           (extLog[j].port # 0 /\ extLog[j].port = extLog[k].port) => j = k

\* C4 witness: a pool of two ports has run out at the third accessory.
C4_Witness ==
    /\ externalPorts = Pool(1, 2)
    /\ Len(extLog) = 3
    /\ extLog[1].port = 1 /\ extLog[2].port = 2 /\ extLog[3].port = 0

\* C5: when the configuration document has ports.start > ports.end, every
\* external accessory is given port 0.
C5_InvertedPoolDisabled ==
    (configPorts.defined /\ configPorts.start > configPorts.end) =>
        \A k \in 1..Len(extLog) : extLog[k].port = 0

FirstWithAddress(address) ==
    CHOOSE j \in 1..Len(extLog) :
        /\ extLog[j].address = address
        /\ \A i \in 1..(j - 1) : extLog[i].address # address

\* C6: of the accessories handed to handlePublishExternalAccessories with one
\* advertised address, the first is published and recorded in
\* publishedAccessories, every later one is rejected, and the recorded one
\* stays recorded and advertised until teardown.
C6_FirstPublisherWins ==
    \A k \in 1..Len(extLog) :
        LET address == extLog[k].address
            first == FirstWithAddress(address)
        IN /\ extLog[k].published = (k = first)
           /\ publishedAccessories[address] = extLog[first].UUID
           /\ teardowns = 0 => address \in extLive

\* C6 witness: e2 was rejected because e1 holds its address.
C6_Witness ==
    \E j, k \in 1..Len(extLog) :
        /\ j < k
        /\ extLog[j].UUID = "e1" /\ extLog[k].UUID = "e2"
        /\ extLog[j].published /\ ~extLog[k].published
        /\ publishedAccessories["AA"] = "e1"

UUIDsOf(cache) == [i \in 1..Len(cache) |-> cache[i].UUID]

\* The cached accessory has no owning instance: neither under plugin.platform
\* nor under the bare platform name.
Orphaned(accessory) ==
    /\ activeDynamicPlugins[<<accessory.associatedPlugin, accessory.associatedPlatform>>] = 0
    /\ activeDynamicPlugins[<<accessory.associatedPlatform>>] = 0

Reconciled(cache) == Reconcile(cache, activeDynamicPlugins, removeOrphans)

\* C7: reconciling a verified set again, with the same instances and the same
\* orphan policy, gives the same entries in the same order.
C7_ReconcileIdempotent ==
    \A cache \in {cachedPlatformAccessories, LoadCached(persisted)} :
        Reconciled(Reconciled(cache)) = Reconciled(cache)

\* C7 witness: reconciliation has dropped one orphan and kept another entry.
C7_Witness ==
    /\ pc = "finish"
    /\ removed # {}
    /\ cachedPlatformAccessories # <<>>

\* C8: when configCachedPlatformAccessories completes, a cached accessory
\* without an owning instance is in the verified set exactly if removeOrphans
\* is false; an orphan it dropped is not in the cache again unless a plugin
\* registers it, and is not in the document the process leaves behind.
C8_OrphanPolicy ==
    /\ [][(pc = "cache" /\ pc' = "finish") =>
            \A i \in 1..Len(cachedPlatformAccessories) :
                Orphaned(cachedPlatformAccessories[i]) =>
                    ((cachedPlatformAccessories[i].UUID \in Range(UUIDsOf(cachedPlatformAccessories')))
                         <=> ~removeOrphans)]_vars
    /\ [](\A u \in removed :
            /\ u \notin Range(UUIDsOf(cachedPlatformAccessories))
            /\ exited => u \notin {persisted[i].UUID : i \in 1..Len(persisted)})

\* C8 witness: an orphan was dropped and the process has exited.
C8_Witness ==
    /\ removeOrphans
    /\ removed # {}
    /\ exited

Matches(document, cache) ==
    /\ Len(document) = Len(cache)
    /\ \A i \in 1..Len(cache) :
           /\ document[i].UUID = cache[i].UUID
           /\ document[i].plugin = cache[i].associatedPlugin
           /\ document[i].platform = cache[i].associatedPlatform

\* C9: when cache reconciliation has finished, the persisted cachedAccessories
\* document holds exactly the verified set.
C9_PersistedIsVerified ==
    pc = "finish" => Matches(persisted, cachedPlatformAccessories)

RECURSIVE WithoutPositions(_, _)
WithoutPositions(s, D) ==
    IF s = <<>> THEN <<>>
    ELSE LET front == WithoutPositions(SubSeq(s, 1, Len(s) - 1), D)
         IN IF Len(s) \in D THEN front ELSE Append(front, s[Len(s)])

\* The first entry of each UUID of the list
FirstEntries(uuids, list) ==
    {i \in 1..Len(uuids) : uuids[i] \in Range(list) /\ \A j \in 1..(i - 1) : uuids[j] # uuids[i]}

\* C10: a register, update or unregister that returns has written the whole
\* in-memory cache, in order, to the cachedAccessories document; register has
\* appended its accessories, unregister has removed the first entry of each
\* UUID given, update has changed no entry.
C10_FullRewrite ==
    [][(apiCalls' = apiCalls + 1 /\ ~lastApi'.threw) =>
          /\ Matches(persisted', cachedPlatformAccessories')
          /\ LET before == UUIDsOf(cachedPlatformAccessories)
                 after == UUIDsOf(cachedPlatformAccessories')
             IN CASE lastApi'.op = "register" -> after = before \o lastApi'.list
                  [] lastApi'.op = "unregister" ->
                         after = WithoutPositions(before, FirstEntries(before, lastApi'.list))
                  [] OTHER -> cachedPlatformAccessories' = cachedPlatformAccessories]_vars

\* C10 witness: a register of two accessories and then an unregister of one
\* have returned.
C10_Witness ==
    /\ apiCalls = 2
    /\ lastApi = [op |-> "unregister", list |-> <<"u1">>, threw |-> FALSE]
    /\ "u2" \in Range(UUIDsOf(cachedPlatformAccessories))
    /\ Matches(persisted, cachedPlatformAccessories)

Count(log, step) == Cardinality({i \in 1..Len(log) : log[i] = step})

\* C11: however many SIGINT / SIGTERM are delivered before the process exits,
\* Server.teardown is called exactly once and starts exactly one cache write;
\* a signal handled while terminating changes nothing.
C11_TeardownOnce ==
    /\ [](teardowns <= 1)
    /\ [](envSignals > 0 => teardowns = 1)
    /\ [](Count(shutdownLog, "persist") = teardowns)
    /\ [][(envSignals' # envSignals /\ terminating) =>
             UNCHANGED <<inputVars, runVars, cacheVars, extVars, bridgeVars, terminating,
                         selfSignal, timerSet, exited, faulted, teardowns, shutdownLog,
                         apiVars>>]_vars

\* C11 witness: two signals were handled, one teardown ran.
C11_Witness ==
    /\ envSignals = 2
    /\ teardowns = 1
    /\ Count(shutdownLog, "persist") = 1

\* C12: a signal handler that completes has written the cache, then
\* unpublished the bridge, then every recorded external accessory, then
\* emitted the api's shutdown event; the shutdown process event and the exit
\* come after it, from the timer.
C12_ShutdownOrder ==
    [][/\ (teardowns' # teardowns /\ timerSet') =>
              /\ shutdownLog' = <<"persist", "unpublishBridge">> \o PublishedOrder(extLog)
                                    \o <<"emitShutdown">>
              /\ persisted' = SerializeAll(cachedPlatformAccessories)
              /\ ~bridgePublished'
              /\ extLive' = {}
              /\ ~exited'
              /\ "shutdown" \notin sent'
       /\ ("shutdown" \in sent' /\ "shutdown" \notin sent) =>
              /\ timerSet
              /\ shutdownLog[Len(shutdownLog)] = "emitShutdown"
              /\ shutdownLog' = shutdownLog \o <<"sendShutdown", "exit">>
              /\ exited']_vars

\* C12 witness: a whole shutdown with one external accessory published.
C12_Witness ==
    /\ exited
    /\ shutdownLog = <<"persist", "unpublishBridge", "BB", "emitShutdown", "sendShutdown", "exit">>

\* C13: once a termination signal has been handled the process eventually
\* exits.
C13_EventuallyTerminated == terminating ~> exited

\* C13 holds where teardown returns: an armed exit timer fires.
TimerLeadsToExit == timerSet ~> exited

\* C14: an exception that nothing catches, wherever it is thrown, makes the
\* process send SIGTERM to itself, and teardown runs.
C14_FaultEscalates == faulted => (selfSignal \/ teardowns > 0)

\* C14 holds once the Server is constructed and the handlers are installed.
FaultAfterConstructionEscalates ==
    (faulted /\ pc # "crashed") => (selfSignal \/ teardowns > 0)

Permitted(plugin) == ~pluginsCfg.defined \/ plugin \in Range(pluginsCfg.list)

\* C18: once the Server is constructed, a permitted plugin whose load failed
\* has its error recorded and is neither active nor initialized, and the
\* permitted plugins that load are active and initialized in discovery order,
\* whichever plugins fail; the process goes on to run().
C18_FailingPluginsExcluded ==
    pc \notin {"new", "crashed"} =>
        /\ \A plugin \in Range(installed) :
               /\ (Permitted(plugin) /\ plugin \in failing) =>
                      /\ plugin \in loadErrors
                      /\ plugin \notin Range(plugins)
                      /\ plugin \notin Range(initialized)
               /\ (Permitted(plugin) /\ plugin \notin failing) =>
                      /\ plugin \in Range(plugins)
                      /\ plugin \in Range(initialized)
                      /\ plugin \notin loadErrors
               /\ ~Permitted(plugin) =>
                      /\ plugin \notin Range(plugins)
                      /\ plugin \notin Range(initialized)
                      /\ plugin \notin loadErrors
        /\ initialized = SelectSeq(installed, LAMBDA n : Permitted(n) /\ n \notin failing)
        /\ plugins = initialized

\* C18 witness: the first plugin discovered failed, the second one loaded and
\* the process has launched.
C18_Witness ==
    /\ pc = "launched"
    /\ installed = <<"q", "p">>
    /\ failing = {"q"}
    /\ loadErrors = {"q"}
    /\ initialized = <<"p">>

\* C18, no plugin loaded: the process still launches and publishes.
NoPluginStillRuns ==
    /\ pc = "launched"
    /\ installed = <<"q">>
    /\ failing = {"q"}
    /\ plugins = <<>>
    /\ publishCount = 1

AccessoryList == Entries(accessoriesCfg, accessoryBodies)
PlatformList == Entries(platformsCfg, platformBodies)

\* The entries a name matches: by the whole name or by its second segment
Matching(list, name) ==
    {i \in 1..Len(list) : \/ list[i].name = name
                          \/ Len(name) >= 2 /\ list[i].name = <<name[2]>>}

ReplacedAt(before, after, k, config) ==
    /\ Len(after) = Len(before)
    /\ after[k] = config
    /\ \A i \in 1..Len(before) : i # k => after[i] = before[i]

\* C15: handleNewConfig with replace = true appends the new body when no entry
\* of the kind matches the name; when one matches, the list keeps its length,
\* a matched entry is the new body and every other entry is unchanged; the
\* list of the other kind is unchanged.
C15_ReplaceOrAppend ==
    [][(configCalls' # configCalls /\ lastConfig'.via = "call" /\ lastConfig'.replace) =>
          LET call == lastConfig'
              before == IF call.type = "accessory" THEN AccessoryList ELSE PlatformList
              after == IF call.type = "accessory" THEN AccessoryList' ELSE PlatformList'
          IN /\ IF Matching(before, call.name) = {}
                THEN after = Append(before, call.config)
                ELSE \E k \in Matching(before, call.name) :
                         ReplacedAt(before, after, k, call.config)
             /\ call.type = "accessory" => PlatformList' = PlatformList
             /\ call.type = "platform" => AccessoryList' = AccessoryList]_vars

\* C15 witness: a replace of p.A has put the new body in the place of the
\* first of two platform entries.
C15_Witness ==
    /\ configCalls = 1
    /\ lastConfig = [via |-> "call", type |-> "platform", name |-> <<"p", "A">>,
                     replace |-> TRUE, config |-> [name |-> <<"B">>, rest |-> "b1"]]
    /\ PlatformList = <<[name |-> <<"B">>, rest |-> "b1"], [name |-> <<"A">>, rest |-> "b0"]>>

\* C16: with replace = true, when an entry has exactly the given name, the
\* first such entry is the one replaced, wherever an entry matching by the
\* second segment only stands.
C16_ExactMatchFirst ==
    [][(configCalls' # configCalls /\ lastConfig'.via = "call" /\ lastConfig'.replace) =>
          LET call == lastConfig'
              before == IF call.type = "accessory" THEN AccessoryList ELSE PlatformList
              after == IF call.type = "accessory" THEN AccessoryList' ELSE PlatformList'
              exact == {i \in 1..Len(before) : before[i].name = call.name}
          IN exact # {} =>
                 ReplacedAt(before, after, CHOOSE k \in exact : \A j \in exact : k <= j,
                            call.config)]_vars

\* C17: a newConfig event with replace = false appends its body to the list
\* of its kind, and the document written holds the appended entry.
C17_EventAppends ==
    [][(configCalls' # configCalls /\ lastConfig'.via = "event" /\ ~lastConfig'.replace) =>
          LET call == lastConfig'
          IN IF call.type = "accessory"
             THEN /\ AccessoryList' = Append(AccessoryList, call.config)
                  /\ configFile'.accessories = AccessoryList'
             ELSE /\ PlatformList' = Append(PlatformList, call.config)
                  /\ configFile'.platforms = PlatformList']_vars

\* C17 holds for handleNewConfig applied with its arguments.
CallAppends ==
    [][(configCalls' # configCalls /\ lastConfig'.via = "call" /\ ~lastConfig'.replace) =>
          LET call == lastConfig'
          IN IF call.type = "accessory"
             THEN /\ AccessoryList' = Append(AccessoryList, call.config)
                  /\ configFile'.accessories = AccessoryList'
             ELSE /\ PlatformList' = Append(PlatformList, call.config)
                  /\ configFile'.platforms = PlatformList']_vars

DynamicInstances == {i \in 1..Len(instances) : instances[i].platform \in dynamicPlatforms}

\* C19: no two dynamic-platform instances are constructed for one key, and
\* the instance recorded under a key is never replaced or removed.
C19_OneInstancePerKey ==
    /\ [](\A i, j \in DynamicInstances : instances[i].key = instances[j].key => i = j)
    /\ [][\A k \in Keys : activeDynamicPlugins[k] # 0 =>
             activeDynamicPlugins'[k] = activeDynamicPlugins[k]]_vars

\* C19 holds for the instances loadDynamicPlatforms constructs: none is made
\* for a key that has an instance.
NoSecondUndeclaredInstance ==
    \A i \in DynamicInstances :
        instances[i].config = "null" =>
            \A j \in DynamicInstances : (instances[j].key = instances[i].key) => i = j

\* The configuration declares the dynamic platform: by its full name or by
\* its platform type
Declared(d) ==
    \E i \in 1..Len(platformsCfg) : platformsCfg[i] = d \/ platformsCfg[i] = <<d[2]>>

NullInstances(d) ==
    {i \in 1..Len(instances) : instances[i].platform = d /\ instances[i].config = "null"}

\* C20: once loadDynamicPlatforms has run, a registered dynamic platform the
\* configuration does not declare has one instance, constructed with a null
\* configuration and recorded under its full name, and a declared one has no
\* such instance; once the cache is reconciled, the cached accessories of a
\* registered dynamic platform are configured and none was dropped.
C20_UndeclaredDynamicLoaded ==
    /\ pc \in {"cache", "finish", "launched"} =>
           \A d \in dynamicPlatforms :
               IF Declared(d) THEN NullInstances(d) = {}
               ELSE /\ Cardinality(NullInstances(d)) = 1
                    /\ \A i \in NullInstances(d) :
                           instances[i].key = d /\ activeDynamicPlugins[d] = i
    /\ pc \in {"finish", "launched"} =>
           \A d \in dynamicPlatforms :
               /\ \A i \in 1..Len(cachedPlatformAccessories) :
                      LET accessory == cachedPlatformAccessories[i]
                      IN (accessory.associatedPlugin = d[1] /\ accessory.associatedPlatform = d[2])
                             => accessory.configured
               /\ \A u \in removed : <<AssociatedPlugin(u), AssociatedPlatform(u)>> # d

\* C20 witness: nothing is declared, p.A was instantiated with a null
\* configuration and the cached u1 was configured under removeOrphans.
C20_Witness ==
    /\ pc = "launched"
    /\ platformsCfg = <<>>
    /\ removeOrphans
    /\ dynamicPlatforms = {<<"p", "A">>}
    /\ NullInstances(<<"p", "A">>) # {}
    /\ persisted # <<>> /\ persisted[1].UUID = "u1"
    /\ apiCalls = 0
    /\ cachedPlatformAccessories # <<>>
    /\ cachedPlatformAccessories[1].UUID = "u1" /\ cachedPlatformAccessories[1].configured

LowerHex == {"a", "b", "c", "d", "e", "f"}

\* String.prototype.toUpperCase on the characters of a username
UpperCase(c) ==
    CASE c = "a" -> "A" [] c = "b" -> "B" [] c = "c" -> "C"
      [] c = "d" -> "D" [] c = "e" -> "E" [] c = "f" -> "F" [] OTHER -> c

ToUpperCase(username) == [i \in 1..Len(username) |-> UpperCase(username[i])]

\* Six colon-separated hex pairs, in either letter case
SixHexPairs(username) ==
    /\ username # NoUsername
    /\ Len(username) = Len(DefaultUsername)
    /\ \A i \in 1..Len(username) :
           IF i % 3 = 0 THEN username[i] = ":" ELSE username[i] \in UpperHex \cup LowerHex

\* C21: whatever the configuration file holds, the Server is constructed; a
\* username of six colon-separated hex pairs, in either letter case, is the
\* bridge's username in upper case, any other is replaced by
\* CC:22:3D:E3:CE:30; the bridge is published with that username.
C21_UsernameAnyCase ==
    pc # "new" =>
        /\ pc # "crashed"
        /\ (bridgeFile.state = "parsed" /\ bridgeFile.bridge) =>
               bridgeUsername = IF SixHexPairs(bridgeFile.username)
                                THEN ToUpperCase(bridgeFile.username)
                                ELSE DefaultUsername
        /\ bridgeFile.state # "parsed" => bridgeUsername = DefaultUsername
        /\ publishCount > 0 => publishInfo = bridgeUsername

\* C21 holds for a file that has a "bridge" section whose username is written
\* in upper case or is no six hex pairs in either case, and for a file that
\* is absent or unparsable.
UpperCaseUsernameKept ==
    (pc # "new" /\ (bridgeFile.bridge => ~SixHexPairs(bridgeFile.username)
                                           \/ UsernamePattern(bridgeFile.username))
                /\ ~LoadConfigThrows(bridgeFile)) =>
        /\ pc # "crashed"
        /\ bridgeUsername = IF bridgeFile.bridge /\ UsernamePattern(bridgeFile.username)
                            THEN bridgeFile.username ELSE DefaultUsername
        /\ publishCount > 0 => publishInfo = bridgeUsername

\* C22: once teardown has started, Server.publish is not called, nothing
\* becomes advertised (neither the bridge nor an external accessory), and at
\* the exit of the process nothing is advertised.
C22_NoPublishAfterTeardown ==
    /\ [][teardowns > 0 =>
             /\ publishCount' = publishCount
             /\ bridgePublished' => bridgePublished
             /\ extLive' \subseteq extLive]_vars
    /\ [](exited => (~bridgePublished /\ extLive = {}))

\* C22 holds at the moment a teardown returns: nothing is advertised then.
NothingPublishedWhenTeardownReturns ==
    [][(teardowns' # teardowns /\ timerSet') => (~bridgePublished' /\ extLive' = {})]_vars

\* The accessories of a list that have a service or a controller
Built(found) == {k \in 1..Len(found) : found[k] = "ok"}

ConfiguredBuilt == {j \in 1..Len(accessoriesCfg) : accessoriesCfg[j] = <<"ok">>}

\* C23, the path of loadAccessories: a configured accessory without services
\* and controllers is not on the bridge, the others of known types are, and
\* loadAccessories raises nothing.
EmptyConfiguredAccessorySkipped ==
    /\ [](pc \in {"dynamic", "cache", "finish", "launched"} =>
             {a \in bridgedStatic : a[1] = 0} = {<<0, j>> : j \in ConfiguredBuilt})
    /\ [][(pc = "platforms" /\ pc' = "dynamic") => UNCHANGED <<faulted, selfSignal>>]_vars

\* C23: an accessory without services and controllers is not handed to the
\* bridge and raises no error, in loadAccessories and in a discovery callback;
\* the callback bridges every other accessory it was handed and takes its
\* publish decision.
C23_EmptyAccessorySkipped ==
    /\ EmptyConfiguredAccessorySkipped
    /\ [][lastFound' # lastFound =>
             /\ bridgedStatic' = bridgedStatic \cup
                    {<<lastFound'.entry, k>> : k \in Built(lastFound'.found)}
             /\ UNCHANGED <<pc, faulted, selfSignal>>
             /\ CallbackPublishes(asyncCalls', asyncWait') => publishCount' = publishCount + 1]_vars

PublishedEntries == SelectSeq(extLog, LAMBDA e : e.published)

Least(a, b) == IF a <= b THEN a ELSE b

\* The allocator's next port after the given number of allocations
NextAfter(allocations) ==
    IF allocations = 0 THEN <<>>
    ELSE <<externalPorts.start + Least(allocations, PoolSize)>>

\* C24: with a pool {start: S, end: E}, S <= E, the accessories that are
\* published are given S, S + 1, ... in the order they are published, 0 once
\* the pool is used up, and nextExternalPort has advanced once per published
\* accessory: a request rejected for an address collision takes no port.
C24_RejectedKeepsAllocator ==
    (externalPorts.defined /\ externalPorts.start <= externalPorts.end) =>
        /\ \A j \in 1..Len(PublishedEntries) :
               PublishedEntries[j].port =
                   IF j <= PoolSize THEN externalPorts.start + j - 1 ELSE 0
        /\ nextExternalPort = NextAfter(Len(PublishedEntries))

\* C24 holds with the rejected requests counted: nextExternalPort advances
\* once per accessory handled, published or not.
AllocatorAdvancesPerRequest ==
    (externalPorts.defined /\ externalPorts.start <= externalPorts.end) =>
        nextExternalPort = NextAfter(Len(extLog))

\* C25: the in-memory cache holds at most one entry per UUID, and no accessory
\* is added to the bridge while the bridge holds it: not by a register, not by
\* the cache reconciliation of run().
C25_OneEntryPerAccessory ==
    /\ [](NoDup(UUIDsOf(cachedPlatformAccessories)))
    /\ [][(apiCalls' # apiCalls /\ lastApi'.op = "register") => ~lastApi'.threw]_vars
    /\ [][(pc = "cache" /\ pc' # "cache" /\ apiCalls' = apiCalls /\ lastFound' = lastFound) =>
             pc' = "finish"]_vars

\* C25 holds while no plugin registers: loading and reconciling the persisted
\* document leaves one entry per UUID and adds each accessory once.
ReconciliationAloneAddsOnce ==
    /\ [](apiCalls = 0 => NoDup(UUIDsOf(cachedPlatformAccessories)))
    /\ [][(pc = "cache" /\ pc' # "cache" /\ apiCalls = 0 /\ apiCalls' = apiCalls
              /\ lastFound' = lastFound) => pc' = "finish"]_vars

====
